---- MODULE Spec2Model ----
(***************************************************************************)
(* Model of the Pet Store MCP demo scripts:                                 *)
(*   src/pet_store_demo_mock.py  (mock data, AIOrchestrator)               *)
(*   src/pet_store_demo.py       (Semantic Kernel agent, MCP plugin)       *)
(*                                                                         *)
(* Text is modelled character by character as TLA+ strings (Len, \o and    *)
(* SubSeq act on the characters).  An emoji of the source, which the       *)
(* TLA+ lexer does not accept inside a string, is written as its name in   *)
(* square brackets, e.g. "[sad]".                                          *)
(*                                                                         *)
(* A Python value is a tagged record: [t |-> "none"], [t |-> "str", v],    *)
(* [t |-> "int", v], [t |-> "dict", v] (v a function from keys to values)  *)
(* and [t |-> "list", v] (v a sequence of values).                         *)
(***************************************************************************)
EXTENDS Integers, Sequences, FiniteSets, TLC

VARIABLES
    demo,                \* which script runs: "mock" | "sk" ("-" outside the driver)
    predefined_prompts,  \* PetStoreDemoApp.predefined_prompts
    mock_pets,           \* MockPetStoreMCPClient.mock_pets (the data source)
    kernel,              \* PetStoreSemanticKernelAgent.kernel: "None" | "Kernel"
    functions,           \* tool names the kernel lists (get_full_list_of_function_metadata)
    pc,                  \* position of the driver: Idle, Initializing, Running, Done
    idx,                 \* 1-based index of the next prompt of the loop
    console,             \* what the driver has printed, one entry per print group
    requests,            \* the repository requests made, in order (a log)
    server,              \* how the remote MCP server answers in this run ("-": none)
    call,                \* the input of the function under test (pure-function specs)
    result,              \* its result, <<>> before the call
    exit_code,           \* <<>> while the process runs, then <<its exit status>>
    in_flight            \* the repository requests sent and not yet answered

vars == <<demo, predefined_prompts, mock_pets, kernel, functions, pc, idx,
          console, requests, server, call, result, exit_code, in_flight>>

driverVars == <<demo, predefined_prompts, mock_pets, kernel, functions, pc,
                idx, console, requests, server, exit_code, in_flight>>

(***************************************************************************)
(* Bounds                                                                  *)
(***************************************************************************)
MaxFrags == 3

MaxPets == 2

MaxStore == 2

MaxPrompts == 2

(***************************************************************************)
(* Strings                                                                 *)
(***************************************************************************)
Chr(s, i) == SubSeq(s, i, i)

Rest(s) == SubSeq(s, 2, Len(s))

\* Python: sub in s
Contains(s, sub) ==
    \E i \in 1..(Len(s) - Len(sub) + 1) : SubSeq(s, i, i + Len(sub) - 1) = sub

UpperLetters == "ABCDEFGHIJKLMNOPQRSTUVWXYZ"

LowerLetters == "abcdefghijklmnopqrstuvwxyz"

Digits == "0123456789"

IsUpper(c) == \E k \in 1..26 : Chr(UpperLetters, k) = c

IsLower(c) == \E k \in 1..26 : Chr(LowerLetters, k) = c

\* Python: char.isdigit() (ASCII digits)
IsDigit(c) == \E k \in 1..10 : Chr(Digits, k) = c

LowerChar(c) ==
    IF IsUpper(c)
    THEN Chr(LowerLetters, CHOOSE k \in 1..26 : Chr(UpperLetters, k) = c)
    ELSE c

UpperChar(c) ==
    IF IsLower(c)
    THEN Chr(UpperLetters, CHOOSE k \in 1..26 : Chr(LowerLetters, k) = c)
    ELSE c

RECURSIVE Lower(_)
\* Python: s.lower()
Lower(s) == IF s = "" THEN "" ELSE LowerChar(Chr(s, 1)) \o Lower(Rest(s))

\* Python: any(char.isdigit() for char in prompt)
AnyDigit(s) == \E i \in 1..Len(s) : IsDigit(Chr(s, i))

DigitVal(c) == (CHOOSE k \in 1..10 : Chr(Digits, k) = c) - 1

RECURSIVE ParseIntAcc(_, _)
ParseIntAcc(s, acc) ==
    IF s = "" THEN acc ELSE ParseIntAcc(Rest(s), 10 * acc + DigitVal(Chr(s, 1)))

\* Python: int(s) for a string of decimal digits
ParseInt(s) == ParseIntAcc(s, 0)

RECURSIVE NatToStr(_)
NatToStr(n) ==
    IF n < 10 THEN Chr(Digits, n + 1)
    ELSE NatToStr(n \div 10) \o Chr(Digits, (n % 10) + 1)

\* Python: str(n)
IntToStr(n) == IF n < 0 THEN "-" \o NatToStr(0 - n) ELSE NatToStr(n)

\* end (inclusive) of the maximal digit run that starts at position i
RECURSIVE RunEnd(_, _)
RunEnd(s, i) ==
    IF i < Len(s) /\ IsDigit(Chr(s, i + 1)) THEN RunEnd(s, i + 1) ELSE i

RECURSIVE FindAllFrom(_, _)
FindAllFrom(s, i) ==
    IF i > Len(s) THEN <<>>
    ELSE IF IsDigit(Chr(s, i))
         THEN <<SubSeq(s, i, RunEnd(s, i))>> \o FindAllFrom(s, RunEnd(s, i) + 1)
         ELSE FindAllFrom(s, i + 1)

\* Python: re.findall(r'\d+', s)
FindAllDigitRuns(s) == FindAllFrom(s, 1)

(***************************************************************************)
(* Python values                                                           *)
(***************************************************************************)
PyNone == [t |-> "none"]

PyStr(s) == [t |-> "str", v |-> s]

PyInt(n) == [t |-> "int", v |-> n]

PyDict(d) == [t |-> "dict", v |-> d]

PyList(l) == [t |-> "list", v |-> l]

EmptyDict == PyDict(<<>>)

\* Python truth value: None, "", 0, {} and [] are falsy
Truthy(x) ==
    CASE x.t = "none" -> FALSE
      [] x.t = "str"  -> x.v # ""
      [] x.t = "int"  -> x.v # 0
      [] x.t = "dict" -> DOMAIN x.v # {}
      [] x.t = "list" -> x.v # <<>>

\* Python: d.get(k, default), d the mapping of a dict
DictGet(d, k, default) == IF k \in DOMAIN d THEN d[k] ELSE default

\* the order in which the keys of a dict are written out
KeyOrder == <<"id", "name", "category", "status", "tags", "photoUrls", "error">>

RECURSIVE JoinWith(_, _)
\* Python: sep.join(parts)
JoinWith(parts, sep) ==
    IF parts = <<>> THEN ""
    ELSE IF Len(parts) = 1 THEN parts[1]
    ELSE parts[1] \o sep \o JoinWith(Tail(parts), sep)

RECURSIVE Repr(_)
\* Python: repr(x)
Repr(x) ==
    CASE x.t = "none" -> "None"
      [] x.t = "str"  -> "'" \o x.v \o "'"
      [] x.t = "int"  -> IntToStr(x.v)
      [] x.t = "list" ->
            "[" \o JoinWith([k \in 1..Len(x.v) |-> Repr(x.v[k])], ", ") \o "]"
      [] x.t = "dict" ->
            LET keys == SelectSeq(KeyOrder, LAMBDA k : k \in DOMAIN x.v)
            IN  "{" \o JoinWith([k \in 1..Len(keys) |->
                          "'" \o keys[k] \o "': " \o Repr(x.v[keys[k]])], ", ")
                \o "}"

\* Python: str(x), as an f-string field formats x
ToStr(x) == IF x.t = "str" THEN x.v ELSE Repr(x)

(***************************************************************************)
(* Prompt routing                                                          *)
(***************************************************************************)
\* _extract_pet_id: None or the int of the first digit run
ExtractPetId(prompt) ==
    LET numbers == FindAllDigitRuns(prompt)
    IN  IF numbers # <<>> THEN PyInt(ParseInt(numbers[1])) ELSE PyNone

ListAll == [op |-> "ListAll"]

ById(n) == [op |-> "ById", id |-> n]

ByStatus(s) == [op |-> "ByStatus", status |-> s]

NoValidId == [op |-> "NoValidId"]

Dogs == [op |-> "Dogs"]

Cats == [op |-> "Cats"]

General == [op |-> "General"]

HasListAllKeyword(p) == Contains(p, "all pets") \/ Contains(p, "list pets")

ByIdCondition(prompt, p) ==
    Contains(p, "pet") /\ (Contains(p, "id") \/ AnyDigit(prompt))

\* a router that tests the available/adoption rule before the pending rule
MockRouteAvailableFirst(prompt) ==
    LET prompt_lower == Lower(prompt)
        pet_id == ExtractPetId(prompt)
    IN  IF HasListAllKeyword(prompt_lower) THEN ListAll
        ELSE IF ByIdCondition(prompt, prompt_lower)
             THEN IF Truthy(pet_id) THEN ById(pet_id.v) ELSE NoValidId
        ELSE IF Contains(prompt_lower, "available")
                \/ Contains(prompt_lower, "adoption") THEN ByStatus("available")
        ELSE IF Contains(prompt_lower, "pending") THEN ByStatus("pending")
        ELSE IF Contains(prompt_lower, "sold") THEN ByStatus("sold")
        ELSE IF Contains(prompt_lower, "dog") THEN Dogs
        ELSE IF Contains(prompt_lower, "cat") THEN Cats
        ELSE General

\* AIOrchestrator.process_prompt: the branch taken for a prompt
MockRoute(prompt) ==
    LET prompt_lower == Lower(prompt)
        pet_id == ExtractPetId(prompt)
    IN  IF HasListAllKeyword(prompt_lower) THEN ListAll
        ELSE IF ByIdCondition(prompt, prompt_lower)
             THEN IF Truthy(pet_id) THEN ById(pet_id.v) ELSE NoValidId
        ELSE IF Contains(prompt_lower, "pending") THEN ByStatus("pending")
        ELSE IF Contains(prompt_lower, "available")
                \/ Contains(prompt_lower, "adoption") THEN ByStatus("available")
        ELSE IF Contains(prompt_lower, "sold") THEN ByStatus("sold")
        ELSE IF Contains(prompt_lower, "dog") THEN Dogs
        ELSE IF Contains(prompt_lower, "cat") THEN Cats
        ELSE General

\* PetStoreSemanticKernelAgent._route_prompt_to_function: the branch taken
LiveRoute(prompt) ==
    LET prompt_lower == Lower(prompt)
        pet_id == ExtractPetId(prompt)
    IN  IF ByIdCondition(prompt, prompt_lower)
        THEN IF Truthy(pet_id) THEN ById(pet_id.v) ELSE NoValidId
        ELSE IF HasListAllKeyword(prompt_lower) THEN ListAll
        ELSE IF Contains(prompt_lower, "pending") THEN ByStatus("pending")
        ELSE IF Contains(prompt_lower, "available")
                \/ Contains(prompt_lower, "adoption") THEN ByStatus("available")
        ELSE IF Contains(prompt_lower, "sold") THEN ByStatus("sold")
        ELSE General

\* PetStoreSemanticKernelAgent._handle_no_mcp_functions: the branch taken;
\* the by-id branch reports pet_id as extracted, None included
DegradedRoute(prompt) ==
    LET prompt_lower == Lower(prompt)
        pet_id == ExtractPetId(prompt)
    IN  IF ByIdCondition(prompt, prompt_lower)
        THEN [op |-> "ById", id |-> pet_id]
        ELSE IF HasListAllKeyword(prompt_lower) THEN ListAll
        ELSE IF Contains(prompt_lower, "pending") THEN ByStatus("pending")
        ELSE IF Contains(prompt_lower, "available")
                \/ Contains(prompt_lower, "adoption") THEN ByStatus("available")
        ELSE IF Contains(prompt_lower, "sold") THEN ByStatus("sold")
        ELSE General

(***************************************************************************)
(* Response formatting.  A formatter either raises or returns a text.      *)
(***************************************************************************)
\* raising an exception whose str() is msg
Raise(msg) == [exc |-> TRUE, text |-> msg]

Ok(s) == [exc |-> FALSE, text |-> s]

RECURSIVE TitleFrom(_, _)
TitleFrom(s, prev_cased) ==
    IF s = "" THEN ""
    ELSE LET c == Chr(s, 1)
             cased == IsUpper(c) \/ IsLower(c)
         IN  (IF ~cased THEN c
              ELSE IF prev_cased THEN LowerChar(c) ELSE UpperChar(c))
             \o TitleFrom(Rest(s), cased)

\* Python: s.title()
Title(s) == TitleFrom(s, FALSE)

\* `x.lower() if x else ""` raises for a truthy x that is no string
LowerOrEmptyRaises(x) == Truthy(x) /\ x.t # "str"

LowerOrEmpty(x) == IF Truthy(x) THEN Lower(x.v) ELSE ""

\* _get_pet_emoji
GetPetEmoji(category) ==
    LET category_lower == LowerOrEmpty(category)
    IN  IF Contains(category_lower, "dog") THEN "[dog]"
        ELSE IF Contains(category_lower, "cat") THEN "[cat]"
        ELSE IF Contains(category_lower, "bird") THEN "[bird]"
        ELSE IF Contains(category_lower, "fish") THEN "[fish]"
        ELSE IF Contains(category_lower, "rabbit") THEN "[rabbit]"
        ELSE "[paw]"

\* _get_status_emoji
GetStatusEmoji(status) ==
    LET status_lower == LowerOrEmpty(status)
    IN  IF status_lower = "available" THEN "[green]"
        ELSE IF status_lower = "pending" THEN "[yellow]"
        ELSE IF status_lower = "sold" THEN "[red]"
        ELSE "[unknown]"

\* pet.get('category', {}): an absent category is the empty dict
CategoryOf(pet) == DictGet(pet, "category", EmptyDict)

\* pet.get('category', {}).get('name', default), for a category that is a dict
CategoryName(pet, default) == DictGet(CategoryOf(pet).v, "name", PyStr(default))

\* Python: type(x).__name__
TypeName(x) == IF x.t = "none" THEN "NoneType" ELSE x.t

NoAttribute(x, attr) ==
    "'" \o TypeName(x) \o "' object has no attribute '" \o attr \o "'"

\* the message of the exception that
\* ', '.join([tag.get('name', '') for tag in pet.get('tags', [])]) raises,
\* "" if it raises none: tags must be a list of dicts whose names are strings
TagsError(pet) ==
    LET tags == DictGet(pet, "tags", PyNone)
        name(k) == DictGet(tags.v[k].v, "name", PyStr(""))
    IN  IF ~Truthy(tags) THEN ""
        ELSE IF tags.t = "int" THEN "'int' object is not iterable"
        ELSE IF tags.t \in {"str", "dict"} THEN NoAttribute(PyStr(""), "get")
        ELSE IF \E k \in 1..Len(tags.v) : tags.v[k].t # "dict"
        THEN LET k == CHOOSE k \in 1..Len(tags.v) :
                        /\ tags.v[k].t # "dict"
                        /\ \A j \in 1..(k - 1) : tags.v[j].t = "dict"
             IN  NoAttribute(tags.v[k], "get")
        ELSE IF \E k \in 1..Len(tags.v) : name(k).t # "str"
        THEN LET k == CHOOSE k \in 1..Len(tags.v) :
                        /\ name(k).t # "str"
                        /\ \A j \in 1..(k - 1) : name(j).t = "str"
             IN  "sequence item " \o IntToStr(k - 1)
                 \o ": expected str instance, " \o TypeName(name(k)) \o " found"
        ELSE ""

TagNames(pet) ==
    LET tags == DictGet(pet, "tags", PyNone).v
    IN  JoinWith([k \in 1..Len(tags) |-> DictGet(tags[k].v, "name", PyStr("")).v],
                 ", ")

HasTags(pet) == Truthy(DictGet(pet, "tags", PyNone))

\* the message of the first exception that the statements both formatters run
\* for one pet dict raise, "" if they raise none
PetFieldsError(pet) ==
    LET status == DictGet(pet, "status", PyStr(""))
    IN  IF CategoryOf(pet).t # "dict" THEN NoAttribute(CategoryOf(pet), "get")
        ELSE IF LowerOrEmptyRaises(CategoryName(pet, ""))
        THEN NoAttribute(CategoryName(pet, ""), "lower")
        ELSE IF LowerOrEmptyRaises(status) THEN NoAttribute(status, "lower")
        ELSE IF status.t # "str" THEN NoAttribute(status, "title")
        ELSE TagsError(pet)

PetFieldsRaise(pet) == PetFieldsError(pet) # ""

\* len(pet.get('photoUrls', [])) raises for a truthy value without a length
PhotosRaise(pet) ==
    LET photos == DictGet(pet, "photoUrls", PyNone)
    IN  Truthy(photos) /\ photos.t = "int"

PhotoCount(pet) ==
    LET photos == DictGet(pet, "photoUrls", PyNone)
    IN  IF photos.t = "dict" THEN Cardinality(DOMAIN photos.v) ELSE Len(photos.v)

\* the lines the list formatters write for one pet dict, without the blank line
PetBlock(pet) ==
    GetPetEmoji(CategoryName(pet, "")) \o " **Pet #"
        \o ToStr(DictGet(pet, "id", PyStr("Unknown"))) \o "**: "
        \o ToStr(DictGet(pet, "name", PyStr("Unnamed"))) \o "\n"
    \o "   [folder] Category: " \o ToStr(CategoryName(pet, "Unknown")) \o "\n"
    \o "   " \o GetStatusEmoji(DictGet(pet, "status", PyStr("")))
        \o " Status: " \o Title(DictGet(pet, "status", PyStr("Unknown")).v) \o "\n"
    \o (IF HasTags(pet) THEN "   [tag]  Tags: " \o TagNames(pet) \o "\n" ELSE "")

\* a single-pet text that looks the name up under the key "Name"
PetDetailsNameKey(pet) ==
    LET pet_emoji == GetPetEmoji(CategoryName(pet, ""))
    IN  pet_emoji \o " **Pet Details** " \o pet_emoji \o "\n\n"
        \o "[id] ID: " \o ToStr(DictGet(pet, "id", PyStr("Unknown"))) \o "\n"
        \o "[name] Name: " \o ToStr(DictGet(pet, "Name", PyStr("Unnamed"))) \o "\n"
        \o "[folder] Category: " \o ToStr(CategoryName(pet, "Unknown")) \o "\n"
        \o GetStatusEmoji(DictGet(pet, "status", PyStr("")))
            \o " Status: " \o Title(DictGet(pet, "status", PyStr("Unknown")).v) \o "\n"
        \o (IF HasTags(pet) THEN "[tag]  Tags: " \o TagNames(pet) \o "\n" ELSE "")
        \o (IF Truthy(DictGet(pet, "photoUrls", PyNone))
            THEN "[camera] Photos: " \o IntToStr(PhotoCount(pet)) \o " available\n"
            ELSE "")

\* the text the single-pet formatters write for one pet dict
PetDetails(pet) ==
    LET pet_emoji == GetPetEmoji(CategoryName(pet, ""))
    IN  pet_emoji \o " **Pet Details** " \o pet_emoji \o "\n\n"
        \o "[id] ID: " \o ToStr(DictGet(pet, "id", PyStr("Unknown"))) \o "\n"
        \o "[name] Name: " \o ToStr(DictGet(pet, "name", PyStr("Unnamed"))) \o "\n"
        \o "[folder] Category: " \o ToStr(CategoryName(pet, "Unknown")) \o "\n"
        \o GetStatusEmoji(DictGet(pet, "status", PyStr("")))
            \o " Status: " \o Title(DictGet(pet, "status", PyStr("Unknown")).v) \o "\n"
        \o (IF HasTags(pet) THEN "[tag]  Tags: " \o TagNames(pet) \o "\n" ELSE "")
        \o (IF Truthy(DictGet(pet, "photoUrls", PyNone))
            THEN "[camera] Photos: " \o IntToStr(PhotoCount(pet)) \o " available\n"
            ELSE "")

NoPetsFound == "[sad] No pets found."

RECURSIVE Concat(_)
Concat(parts) == IF parts = <<>> THEN "" ELSE Head(parts) \o Concat(Tail(parts))

\* the exception of the list formatter's loop body for one element, "" if none
PetError(pet) ==
    IF pet.t # "dict" THEN NoAttribute(pet, "get") ELSE PetFieldsError(pet.v)

\* AIOrchestrator._format_pets_response; data is the sequence of the list
MockFormatPets(data, header) ==
    IF data = <<>> THEN Ok(header \o "\n\n" \o NoPetsFound)
    ELSE IF \E k \in 1..Len(data) : PetError(data[k]) # ""
    THEN LET k == CHOOSE k \in 1..Len(data) :
                    /\ PetError(data[k]) # ""
                    /\ \A j \in 1..(k - 1) : PetError(data[j]) = ""
         IN  Raise(PetError(data[k]))
    ELSE Ok(header \o "\n\n"
            \o Concat([k \in 1..Len(data) |-> PetBlock(data[k].v) \o "\n"]))

\* AIOrchestrator._format_single_pet_response; pet is the mapping of the dict
MockFormatSinglePet(pet) ==
    IF PetFieldsRaise(pet) THEN Raise(PetFieldsError(pet))
    ELSE IF PhotosRaise(pet) THEN Raise("object of type 'int' has no len()")
    ELSE Ok(PetDetails(pet))

\* json.loads on the payload texts of the model: the decoded value, or a
\* JSONDecodeError for any other text
JsonLoads(text) ==
    CASE text = "[]" -> [ok |-> TRUE, value |-> PyList(<<>>)]
      [] text = "null" -> [ok |-> TRUE, value |-> PyNone]
      [] text = "{\"id\": 7, \"name\": \"Rex\", \"status\": \"sold\"}" ->
            [ok |-> TRUE,
             value |-> PyDict([id |-> PyInt(7), name |-> PyStr("Rex"),
                               status |-> PyStr("sold")])]
      [] text = "[{\"id\": 7, \"category\": null}]" ->
            [ok |-> TRUE,
             value |-> PyList(<<PyDict([id |-> PyInt(7), category |-> PyNone])>>)]
      [] OTHER -> [ok |-> FALSE, value |-> PyNone]

\* PetStoreSemanticKernelAgent._format_pets_response; data is any value
SkFormatPets(data, header) ==
    LET decoded == IF data.t = "str" THEN JsonLoads(data.v)
                   ELSE [ok |-> TRUE, value |-> data]
        d == decoded.value
        pets == IF d.t = "list" THEN d.v ELSE <<d>>
        block(pet) == IF pet.t = "dict" THEN PetBlock(pet.v)
                      ELSE "[paw] Pet: " \o ToStr(pet) \o "\n"
    IN  IF ~decoded.ok THEN Ok(header \o "\n\n[page] " \o data.v)
        ELSE IF ~Truthy(d) THEN Ok(header \o "\n\n" \o NoPetsFound)
        ELSE IF \E k \in 1..Len(pets) :
                   pets[k].t = "dict" /\ PetFieldsRaise(pets[k].v)
        THEN Ok(header \o "\n\n[page] " \o ToStr(d))
        ELSE Ok(header \o "\n\n"
                \o Concat([k \in 1..Len(pets) |-> block(pets[k]) \o "\n"]))

\* PetStoreSemanticKernelAgent._format_single_pet_response; pet is any value
SkFormatSinglePet(pet) ==
    LET decoded == IF pet.t = "str" THEN JsonLoads(pet.v)
                   ELSE [ok |-> TRUE, value |-> pet]
        p == decoded.value
    IN  IF ~decoded.ok THEN Ok("[paw] **Pet Details** [paw]\n\n[page] " \o pet.v)
        ELSE IF p.t = "dict" /\ ~(PetFieldsRaise(p.v) \/ PhotosRaise(p.v))
        THEN Ok(PetDetails(p.v))
        ELSE Ok("[paw] **Pet Details** [paw]\n\n[page] " \o ToStr(p))

(***************************************************************************)
(* The mock repository client and the handlers of the mock orchestrator    *)
(***************************************************************************)
\* MockPetStoreMCPClient.__init__: the first of mock_pets
Buddy ==
    PyDict([id |-> PyInt(1), name |-> PyStr("Buddy"),
            category |-> PyDict([id |-> PyInt(1), name |-> PyStr("Dogs")]),
            status |-> PyStr("available"),
            tags |-> PyList(<<PyDict([id |-> PyInt(1), name |-> PyStr("friendly")]),
                              PyDict([id |-> PyInt(2), name |-> PyStr("trained")])>>),
            photoUrls |-> PyList(<<PyStr("https://example.com/buddy1.jpg"),
                                   PyStr("https://example.com/buddy2.jpg")>>)])

\* MockPetStoreMCPClient.__init__: mock_pets
MockPets ==
    << Buddy,
       PyDict([id |-> PyInt(2), name |-> PyStr("Whiskers"),
               category |-> PyDict([id |-> PyInt(2), name |-> PyStr("Cats")]),
               status |-> PyStr("available"),
               tags |-> PyList(<<PyDict([id |-> PyInt(3), name |-> PyStr("calm")]),
                                 PyDict([id |-> PyInt(4), name |-> PyStr("indoor")])>>),
               photoUrls |-> PyList(<<PyStr("https://example.com/whiskers.jpg")>>)]),
       PyDict([id |-> PyInt(3), name |-> PyStr("Charlie"),
               category |-> PyDict([id |-> PyInt(1), name |-> PyStr("Dogs")]),
               status |-> PyStr("pending"),
               tags |-> PyList(<<PyDict([id |-> PyInt(1), name |-> PyStr("friendly")]),
                                 PyDict([id |-> PyInt(5), name |-> PyStr("energetic")])>>),
               photoUrls |-> PyList(<<PyStr("https://example.com/charlie.jpg")>>)]),
       PyDict([id |-> PyInt(4), name |-> PyStr("Luna"),
               category |-> PyDict([id |-> PyInt(2), name |-> PyStr("Cats")]),
               status |-> PyStr("sold"),
               tags |-> PyList(<<PyDict([id |-> PyInt(6), name |-> PyStr("quiet")]),
                                 PyDict([id |-> PyInt(4), name |-> PyStr("indoor")])>>),
               photoUrls |-> PyList(<<PyStr("https://example.com/luna1.jpg"),
                                      PyStr("https://example.com/luna2.jpg")>>)]),
       PyDict([id |-> PyInt(42), name |-> PyStr("Max"),
               category |-> PyDict([id |-> PyInt(1), name |-> PyStr("Dogs")]),
               status |-> PyStr("available"),
               tags |-> PyList(<<PyDict([id |-> PyInt(7), name |-> PyStr("guard dog")]),
                                 PyDict([id |-> PyInt(1), name |-> PyStr("friendly")])>>),
               photoUrls |-> PyList(<<PyStr("https://example.com/max.jpg")>>)]) >>

\* Python: a == b
PyEq(a, b) == a.t = b.t /\ (a.t = "none" \/ a.v = b.v)

\* MockPetStoreMCPClient.get_pets
GetPets(pets) == pets

\* the pet with that id as the remote pet store finds it, None if it has none
GetPetByIdNone(pets, pet_id) ==
    IF \E k \in 1..Len(pets) : PyEq(pets[k].v["id"], PyInt(pet_id))
    THEN pets[CHOOSE k \in 1..Len(pets) :
                 /\ PyEq(pets[k].v["id"], PyInt(pet_id))
                 /\ \A j \in 1..(k - 1) : ~PyEq(pets[j].v["id"], PyInt(pet_id))]
    ELSE PyNone

\* MockPetStoreMCPClient.get_pet_by_id: the first pet with that id, or the
\* error dict
GetPetById(pets, pet_id) ==
    IF \E k \in 1..Len(pets) : PyEq(pets[k].v["id"], PyInt(pet_id))
    THEN pets[CHOOSE k \in 1..Len(pets) :
                 /\ PyEq(pets[k].v["id"], PyInt(pet_id))
                 /\ \A j \in 1..(k - 1) : ~PyEq(pets[j].v["id"], PyInt(pet_id))]
    ELSE PyDict([error |-> PyStr("Pet with ID " \o IntToStr(pet_id) \o " not found")])

\* a client that compares the status without regard to case
SearchPetsByStatusAnyCase(pets, status) ==
    LET match(pet) == pet.v["status"].t = "str"
                      /\ Lower(pet.v["status"].v) = Lower(status)
    IN  SelectSeq(pets, match)

\* MockPetStoreMCPClient.search_pets_by_status
SearchPetsByStatus(pets, status) ==
    LET match(pet) == PyEq(pet.v["status"], PyStr(status))
    IN  SelectSeq(pets, match)

(***************************************************************************)
(* The handlers of the mock orchestrator                                   *)
(***************************************************************************)
\* PetStoreDemoApp.__init__: mcp_url
McpUrl == "https://apim-apiops-dev-eastus2-basic.azure-api.net/pet-shop-mcp/sse"

NoValidIdMessage ==
    "[thinking] I couldn't find a valid pet ID in your request. "
    \o "Please specify a pet ID number."

\* the first message of a sequence of messages that is not "", "" if all are
FirstError(msgs) ==
    IF \E k \in 1..Len(msgs) : msgs[k] # ""
    THEN msgs[CHOOSE k \in 1..Len(msgs) :
                 msgs[k] # "" /\ \A j \in 1..(k - 1) : msgs[j] = ""]
    ELSE ""

\* AIOrchestrator._handle_general_query
MockGeneralQuery(prompt) ==
    "[dog] Welcome to our Pet Store! [cat]\n\n"
    \o "I can help you with:\n"
    \o "[bullet] [clipboard] List all pets: \"Show me all pets\"\n"
    \o "[bullet] [search] Find a specific pet: \"Show me pet with ID 123\"\n"
    \o "[bullet] [green] Available pets: \"What pets are available?\"\n"
    \o "[bullet] [yellow] Pending adoptions: \"Which pets are pending?\"\n"
    \o "[bullet] [red] Sold pets: \"What pets have been sold?\"\n"
    \o "[bullet] [dog] Dogs: \"List available dogs\"\n"
    \o "[bullet] [cat] Cats: \"What cats do you have?\"\n\n"
    \o "Your request: \""
    \o prompt
    \o "\"\n"
    \o "Try rephrasing your question using one of the examples above! [smile]"

\* _handle_get_all_pets
HandleGetAllPets(pets) ==
    MockFormatPets(GetPets(pets), "[paw] Here are all the pets in our store:")

\* a handler that renders a missing pet as an empty pet block
HandleGetPetByIdNoCheck(pets, pet_id) ==
    MockFormatSinglePet(GetPetById(pets, pet_id).v)

\* _handle_get_pet_by_id
HandleGetPetById(pets, pet_id) ==
    LET found == GetPetById(pets, pet_id)
    IN  IF "error" \in DOMAIN found.v
        THEN Ok("[x] Sorry, I couldn't find pet " \o IntToStr(pet_id) \o ": "
                \o ToStr(found.v["error"]))
        ELSE MockFormatSinglePet(found.v)

\* _handle_get_available_pets, _handle_get_sold_pets, _handle_get_pending_pets
HandleGetPetsByStatus(pets, status) ==
    MockFormatPets(SearchPetsByStatus(pets, status),
        CASE status = "available" -> "[green] Here are the pets available for adoption:"
          [] status = "sold" -> "[red] Here are the pets that have been sold:"
          [] status = "pending" -> "[yellow] Here are the pets with pending adoptions:")

\* pet.get('category', {}).get('name', '').lower() raises: the message, or ""
CategoryTestError(pet) ==
    IF CategoryOf(pet.v).t # "dict" THEN NoAttribute(CategoryOf(pet.v), "get")
    ELSE IF CategoryName(pet.v, "").t # "str"
    THEN NoAttribute(CategoryName(pet.v, ""), "lower")
    ELSE ""

InCategory(pet, category) == Lower(CategoryName(pet.v, "").v) = category

\* _handle_get_dogs
HandleGetDogs(pets) ==
    LET all_pets == GetPets(pets)
        error == FirstError([k \in 1..Len(all_pets) |-> CategoryTestError(all_pets[k])])
        isDog(pet) == InCategory(pet, "dogs")
        isAvailable(pet) == PyEq(DictGet(pet.v, "status", PyNone), PyStr("available"))
    IN  IF error # "" THEN Raise(error)
        ELSE MockFormatPets(SelectSeq(SelectSeq(all_pets, isDog), isAvailable),
                            "[dog] Here are the available dogs in our store:")

\* _handle_get_cats
HandleGetCats(pets) ==
    LET all_pets == GetPets(pets)
        error == FirstError([k \in 1..Len(all_pets) |-> CategoryTestError(all_pets[k])])
        isCat(pet) == InCategory(pet, "cats")
    IN  IF error # "" THEN Raise(error)
        ELSE MockFormatPets(SelectSeq(all_pets, isCat),
                            "[cat] Here are all the cats in our store:")

\* AIOrchestrator.process_prompt: the response, or the exception it raises
MockProcessPrompt(prompt, pets) ==
    LET d == MockRoute(prompt)
    IN  CASE d.op = "ListAll" -> HandleGetAllPets(pets)
          [] d.op = "ById" -> HandleGetPetById(pets, d.id)
          [] d.op = "NoValidId" -> Ok(NoValidIdMessage)
          [] d.op = "ByStatus" -> HandleGetPetsByStatus(pets, d.status)
          [] d.op = "Dogs" -> HandleGetDogs(pets)
          [] d.op = "Cats" -> HandleGetCats(pets)
          [] d.op = "General" -> Ok(MockGeneralQuery(prompt))

\* the request AIOrchestrator.process_prompt makes of the client for a prompt
MockRequests(prompt) ==
    LET d == MockRoute(prompt)
    IN  CASE d.op \in {"ListAll", "Dogs", "Cats"} -> <<[op |-> "get_pets"]>>
          [] d.op = "ById" -> <<[op |-> "get_pet_by_id", pet_id |-> d.id]>>
          [] d.op = "ByStatus" ->
                <<[op |-> "search_pets_by_status", status |-> d.status]>>
          [] OTHER -> <<>>

(***************************************************************************)
(* The Semantic Kernel agent.  A listed function is [name, description];   *)
(* the remote server answers a tool call according to its mode.            *)
(***************************************************************************)
\* PetStoreSemanticKernelAgent._handle_general_query; available_functions is
\* the text of the list
SkGeneralQuery(prompt, available_functions) ==
    "[dog] Welcome to our Pet Store! [cat]\n\n"
    \o "I can help you with:\n"
    \o "[bullet] [clipboard] List all pets: \"Show me all pets\"\n"
    \o "[bullet] [search] Find a specific pet: \"Show me pet with ID 123\"\n"
    \o "[bullet] [green] Available pets: \"What pets are available?\"\n"
    \o "[bullet] [yellow] Pending adoptions: \"Which pets are pending?\"\n"
    \o "[bullet] [red] Sold pets: \"What pets have been sold?\"\n\n"
    \o "Your request: \""
    \o prompt
    \o "\"\n"
    \o "Available MCP functions: "
    \o available_functions
    \o "\n\n"
    \o "Try rephrasing your question using one of the examples above! [smile]"

\* _handle_no_mcp_functions, lines 114-122
DegradedByIdMessage(pet_id, mcp_url) ==
    "[search] **Find Pet By ID Request** [search]\n\n"
    \o "You requested information about pet ID: "
    \o ToStr(pet_id)
    \o "\n\n"
    \o "[plug] **MCP Connection Status**: The MCP server at "
    \o mcp_url
    \o " is not currently accessible.\n\n"
    \o "In a working environment, this would use the \"Find Pet By ID\" operation from the MCP server to retrieve detailed information about the pet.\n\n"
    \o "[bulb] **Expected Response**: Pet details including name, category, status, tags, and photos."

\* _handle_no_mcp_functions, lines 125-131
DegradedListAllMessage(mcp_url) ==
    "[clipboard] **List All Pets Request** [clipboard]\n\n"
    \o "[plug] **MCP Connection Status**: The MCP server at "
    \o mcp_url
    \o " is not currently accessible.\n\n"
    \o "In a working environment, this would use the MCP server to retrieve all pets from the pet store.\n\n"
    \o "[bulb] **Expected Response**: A list of all pets with their basic information."

\* _handle_no_mcp_functions, lines 134-140
DegradedPendingMessage(mcp_url) ==
    "[yellow] **Pending Adoptions Request** [yellow]\n\n"
    \o "[plug] **MCP Connection Status**: The MCP server at "
    \o mcp_url
    \o " is not currently accessible.\n\n"
    \o "In a working environment, this would use the MCP server to find pets with status=\"pending\".\n\n"
    \o "[bulb] **Expected Response**: A list of pets with pending adoptions."

\* _handle_no_mcp_functions, lines 143-149
DegradedAvailableMessage(mcp_url) ==
    "[green] **Available Pets Request** [green]\n\n"
    \o "[plug] **MCP Connection Status**: The MCP server at "
    \o mcp_url
    \o " is not currently accessible.\n\n"
    \o "In a working environment, this would use the MCP server to find pets with status=\"available\".\n\n"
    \o "[bulb] **Expected Response**: A list of pets available for adoption."

\* _handle_no_mcp_functions, lines 152-158
DegradedSoldMessage(mcp_url) ==
    "[red] **Sold Pets Request** [red]\n\n"
    \o "[plug] **MCP Connection Status**: The MCP server at "
    \o mcp_url
    \o " is not currently accessible.\n\n"
    \o "In a working environment, this would use the MCP server to find pets with status=\"sold\".\n\n"
    \o "[bulb] **Expected Response**: A list of pets that have been sold."

\* _handle_no_mcp_functions, lines 161-182
DegradedGeneralMessage(prompt, mcp_url) ==
    "[dog] **Pet Store MCP Demo** [cat]\n\n"
    \o "[plug] **MCP Connection Status**: The MCP server at "
    \o mcp_url
    \o " is not currently accessible.\n\n"
    \o "**[check] Semantic Kernel Integration**: Successfully implemented with MCPSsePlugin\n"
    \o "**[check] Agent Framework**: Working and ready to process pet-related queries\n"
    \o "**[check] Find Pet By ID**: Operation configured and ready to use\n\n"
    \o "Your request: \""
    \o prompt
    \o "\"\n\n"
    \o "[bulb] In a working environment, this Semantic Kernel agent would:\n"
    \o "[bullet] Connect to the MCP server via SSE\n"
    \o "[bullet] Load available MCP functions (Find Pet By ID, List Pets, etc.)\n"
    \o "[bullet] Process your natural language request\n"
    \o "[bullet] Route to the appropriate MCP operation\n"
    \o "[bullet] Return formatted results with emojis\n\n"
    \o "[wrench] **Technical Implementation**:\n"
    \o "- Using Semantic Kernel v1.32.1\n"
    \o "- MCPSsePlugin for SSE endpoint connectivity  \n"
    \o "- Async processing with proper error handling\n"
    \o "- Rich console formatting with emojis"

FullyQualifiedName(f) == "pet_store_mcp-" \o f.name

\* Python: str of the list of the names
NameList(names) == Repr(PyList([k \in 1..Len(names) |-> PyStr(names[k])]))

\* PetStoreSemanticKernelAgent._handle_no_mcp_functions
HandleNoMcpFunctions(prompt, mcp_url) ==
    LET d == DegradedRoute(prompt)
    IN  CASE d.op = "ById" -> DegradedByIdMessage(d.id, mcp_url)
          [] d.op = "ListAll" -> DegradedListAllMessage(mcp_url)
          [] d.op = "ByStatus" /\ d.status = "pending" -> DegradedPendingMessage(mcp_url)
          [] d.op = "ByStatus" /\ d.status = "available" ->
                DegradedAvailableMessage(mcp_url)
          [] d.op = "ByStatus" /\ d.status = "sold" -> DegradedSoldMessage(mcp_url)
          [] d.op = "General" -> DegradedGeneralMessage(prompt, mcp_url)

\* what `await self.kernel.invoke(tool, **args)` comes to, by the mode of the
\* remote server: it raises, returns no result, or returns a result with a value
ServerReply(mode, tool, args) ==
    LET byId == Contains(Lower(tool), "byid")
        byStatus == Contains(Lower(tool), "bystatus")
        idGiven == "pet_id" \in DOMAIN args \/ "petId" \in DOMAIN args
        id == IF "pet_id" \in DOMAIN args THEN args["pet_id"] ELSE args["petId"]
        found == GetPetByIdNone(MockPets, id)
    IN  CASE mode = "down" -> [kind |-> "raise", msg |-> "Connection timed out"]
          [] mode = "empty" -> [kind |-> "none"]
          [] mode = "text" -> [kind |-> "value", value |-> PyStr("Service unavailable")]
          [] mode = "json" ->
                [kind |-> "value",
                 value |-> IF byId
                           THEN PyStr("{\"id\": 7, \"name\": \"Rex\", \"status\": \"sold\"}")
                           ELSE IF byStatus THEN PyStr("[]")
                           ELSE PyStr("[{\"id\": 7, \"category\": null}]")]
          [] mode = "objects" ->
                IF byId
                THEN IF ~idGiven
                     THEN [kind |-> "raise", msg |-> "Missing required argument"]
                     ELSE IF found = PyNone
                     THEN [kind |-> "raise", msg |-> "404 Not Found"]
                     ELSE [kind |-> "value", value |-> found]
                ELSE IF byStatus
                THEN IF "status" \notin DOMAIN args
                     THEN [kind |-> "raise", msg |-> "Missing required argument"]
                     ELSE [kind |-> "value",
                           value |-> PyList(SearchPetsByStatus(MockPets, args["status"]))]
                ELSE [kind |-> "value", value |-> PyList(MockPets)]

\* _call_generic_mcp_function: the text returned and the tool invoked, if any
CallGenericMcpFunction(fns, mode, function_name, args) ==
    LET matching == SelectSeq(fns,
                        LAMBDA f : Contains(Lower(f.name), Lower(function_name)))
        reply == ServerReply(mode, matching[1].name, args)
    IN  IF matching = <<>>
        THEN [text |-> "[x] Function '" \o function_name
                       \o "' not found. Available functions: "
                       \o NameList([k \in 1..Len(fns) |-> fns[k].name]),
              invoked |-> <<>>]
        ELSE [text |-> CASE reply.kind = "raise" ->
                              "[x] Error calling " \o function_name \o ": " \o reply.msg
                         [] reply.kind = "none" ->
                              "[x] No results returned from " \o function_name
                         [] reply.kind = "value" ->
                              SkFormatPets(reply.value,
                                  "[paw] Results for " \o function_name \o ":").text,
              invoked |-> <<[tool |-> matching[1].name, args |-> args]>>]

\* _call_find_pet_by_id
CallFindPetById(fns, mode, pet_id) ==
    LET find_pet_functions ==
            SelectSeq(fns, LAMBDA f : /\ Contains(Lower(f.name), "find")
                                      /\ Contains(Lower(f.name), "pet"))
        args == [pet_id |-> pet_id]
        reply == ServerReply(mode, find_pet_functions[1].name, args)
    IN  IF find_pet_functions = <<>>
        THEN CallGenericMcpFunction(fns, mode, "findPetById", [petId |-> pet_id])
        ELSE [text |-> CASE reply.kind = "raise" ->
                              "[x] Sorry, I couldn't find pet " \o IntToStr(pet_id)
                              \o ": " \o reply.msg
                         [] reply.kind = "none" ->
                              "[x] Could not find pet with ID " \o IntToStr(pet_id)
                         [] reply.kind = "value" -> SkFormatSinglePet(reply.value).text,
              invoked |-> <<[tool |-> find_pet_functions[1].name, args |-> args]>>]

\* _route_prompt_to_function
RoutePromptToFunction(prompt, fns, mode) ==
    LET d == LiveRoute(prompt)
        available_functions == [k \in 1..Len(fns) |-> FullyQualifiedName(fns[k])]
    IN  CASE d.op = "ById" -> CallFindPetById(fns, mode, d.id)
          [] d.op = "NoValidId" -> [text |-> NoValidIdMessage, invoked |-> <<>>]
          [] d.op = "ListAll" -> CallGenericMcpFunction(fns, mode, "listPets", <<>>)
          [] d.op = "ByStatus" ->
                CallGenericMcpFunction(fns, mode, "findPetsByStatus",
                                       [status |-> d.status])
          [] d.op = "General" ->
                [text |-> SkGeneralQuery(prompt, NameList(available_functions)),
                 invoked |-> <<>>]

NotInitializedMessage == "[x] Agent not initialized. Please call initialize() first."

\* the statements inside the try of process_prompt: the text they return, or
\* the exception they raise (listing the functions of the kernel may raise)
SkProcessPromptBody(prompt, k, fns, mode) ==
    IF k = "None"
    THEN [exc |-> FALSE, text |-> NotInitializedMessage, invoked |-> <<>>]
    ELSE IF mode = "unlistable"
    THEN [exc |-> TRUE, text |-> "Plugin is not connected", invoked |-> <<>>]
    ELSE IF fns # <<>>
    THEN [exc |-> FALSE] @@ RoutePromptToFunction(prompt, fns, mode)
    ELSE [exc |-> FALSE, text |-> HandleNoMcpFunctions(prompt, McpUrl),
          invoked |-> <<>>]

\* a process_prompt without its `except Exception`
SkProcessPromptNoCatch(prompt, k, fns, mode) ==
    SkProcessPromptBody(prompt, k, fns, mode)

\* PetStoreSemanticKernelAgent.process_prompt: it catches every exception, so
\* it always returns a text
SkProcessPrompt(prompt, k, fns, mode) ==
    LET Except(body) ==
            IF body.exc
            THEN [exc |-> FALSE,
                  text |-> "[x] Sorry, I couldn't process your request: "
                           \o body.text,
                  invoked |-> body.invoked]
            ELSE body
    IN  Except(SkProcessPromptBody(prompt, k, fns, mode))

(***************************************************************************)
(* Prompts: the eight predefined prompts of the scripts, and every         *)
(* concatenation of at most MaxFrags fragments.                            *)
(***************************************************************************)
PredefinedPrompts ==
    << "Show me all pets in the store",
       "What pets are available for adoption?",
       "Find me pet with ID 1",
       "Which pets are currently pending adoption?",
       "Show me all sold pets",
       "Tell me about pet number 42",
       "List available dogs",
       "What cats do you have?" >>

Fragments ==
    { "all pets ", "List Pets ", "Pet ", "ID ", "7 ", "12", "0", "pending ",
      "available ", "adoption ", "sold ", "dog ", "cat " }

RECURSIVE Join(_)
Join(fs) == IF fs = <<>> THEN "" ELSE Head(fs) \o Join(Tail(fs))

FragSeqs == UNION { [1..n -> Fragments] : n \in 0..MaxFrags }

Prompts ==
    { Join(fs) : fs \in FragSeqs }
    \cup { PredefinedPrompts[k] : k \in 1..Len(PredefinedPrompts) }

(***************************************************************************)
(* Specification of the routers as functions of the prompt                 *)
(***************************************************************************)
NoDriver ==
    /\ demo = "-"
    /\ predefined_prompts = <<>>
    /\ mock_pets = <<>>
    /\ kernel = "None"
    /\ functions = <<>>
    /\ pc = "-"
    /\ idx = 0
    /\ console = <<>>
    /\ requests = <<>>
    /\ server = "-"
    /\ exit_code = <<>>
    /\ in_flight = {}

RouteInit ==
    /\ NoDriver
    /\ call \in { [prompt |-> p] : p \in Prompts }
    /\ result = <<>>

MockProcessPromptRoute ==
    /\ result = <<>>
    /\ result' = <<[router |-> "mock", decision |-> MockRoute(call.prompt)]>>
    /\ UNCHANGED <<driverVars, call>>

LiveProcessPromptRoute ==
    /\ result = <<>>
    /\ result' = <<[router |-> "live", decision |-> LiveRoute(call.prompt)]>>
    /\ UNCHANGED <<driverVars, call>>

DegradedProcessPromptRoute ==
    /\ result = <<>>
    /\ result' = <<[router |-> "degraded", decision |-> DegradedRoute(call.prompt)]>>
    /\ UNCHANGED <<driverVars, call>>

RouteNext ==
    \/ MockProcessPromptRoute
    \/ LiveProcessPromptRoute
    \/ DegradedProcessPromptRoute

SpecRoute == RouteInit /\ [][RouteNext]_vars

(***************************************************************************)
(* Specification of the formatters as functions of their input             *)
(***************************************************************************)
\* pets whose present fields have the types of the data model; fields may be absent
ConformingPets ==
    { Buddy,
      EmptyDict,
      PyDict([id |-> PyInt(4), name |-> PyStr("Luna"),
              category |-> PyDict([name |-> PyStr("Cats")]),
              status |-> PyStr("SOLD"), tags |-> PyList(<<>>),
              photoUrls |-> PyList(<<>>)]),
      PyDict([id |-> PyInt(3), status |-> PyStr("pending"),
              tags |-> PyList(<<PyDict([id |-> PyInt(5)])>>)]),
      PyDict([name |-> PyStr("Tweety"), category |-> EmptyDict]) }

\* pets with a field that is null or of the wrong type
MalformedPets ==
    { PyDict([id |-> PyInt(7), category |-> PyNone]),
      PyDict([id |-> PyInt(8), name |-> PyStr("Rex"), status |-> PyNone]),
      PyDict([id |-> PyInt(9), status |-> PyInt(1)]),
      PyDict([id |-> PyInt(10), category |-> PyStr("Dogs")]),
      PyDict([id |-> PyInt(11), category |-> PyDict([name |-> PyInt(5)])]),
      PyDict([id |-> PyInt(12), tags |-> PyList(<<PyStr("calm")>>)]),
      PyDict([id |-> PyInt(13), photoUrls |-> PyInt(3)]) }

PetPool == ConformingPets \cup MalformedPets

PetLists == UNION { [1..n -> PetPool] : n \in 0..MaxPets }

\* what a remote tool can hand to the Semantic Kernel formatters besides a list
OtherPayloads ==
    { PyNone, PyInt(0), Buddy,
      PyStr("[]"), PyStr("null"), PyStr("Service unavailable"),
      PyStr("{\"id\": 7, \"name\": \"Rex\", \"status\": \"sold\"}"),
      PyStr("[{\"id\": 7, \"category\": null}]") }

Headers == { "H", "[paw] Here are all the pets in our store:" }

FormatInit ==
    /\ NoDriver
    /\ call \in { [data |-> d, header |-> h] :
                    d \in { PyList(l) : l \in PetLists } \cup OtherPayloads,
                    h \in Headers }
    /\ result = <<>>

\* AIOrchestrator._format_pets_response is called with lists only
MockFormatPetsCall ==
    /\ result = <<>>
    /\ call.data.t = "list"
    /\ result' = <<[fn |-> "mock_pets",
                    out |-> MockFormatPets(call.data.v, call.header)]>>
    /\ UNCHANGED <<driverVars, call>>

\* AIOrchestrator._format_single_pet_response is called with one pet dict
MockFormatSinglePetCall ==
    /\ result = <<>>
    /\ call.data.t = "list"
    /\ \E k \in 1..Len(call.data.v) :
          result' = <<[fn |-> "mock_single", pet |-> call.data.v[k],
                       out |-> MockFormatSinglePet(call.data.v[k].v)]>>
    /\ UNCHANGED <<driverVars, call>>

SkFormatPetsCall ==
    /\ result = <<>>
    /\ result' = <<[fn |-> "sk_pets",
                    out |-> SkFormatPets(call.data, call.header)]>>
    /\ UNCHANGED <<driverVars, call>>

SkFormatSinglePetCall ==
    /\ result = <<>>
    /\ \E pet \in (IF call.data.t = "list"
                   THEN { call.data.v[k] : k \in 1..Len(call.data.v) }
                   ELSE { call.data }) :
          result' = <<[fn |-> "sk_single", pet |-> pet,
                       out |-> SkFormatSinglePet(pet)]>>
    /\ UNCHANGED <<driverVars, call>>

FormatNext ==
    \/ MockFormatPetsCall
    \/ MockFormatSinglePetCall
    \/ SkFormatPetsCall
    \/ SkFormatSinglePetCall

SpecFormat == FormatInit /\ [][FormatNext]_vars

(***************************************************************************)
(* Specification of the repository client as a function of the data source *)
(* and the request                                                         *)
(***************************************************************************)
\* small pets of a data source: every one has an id and a status
StorePets ==
    { PyDict([id |-> PyInt(1), name |-> PyStr("Rex"),
              category |-> PyDict([name |-> PyStr("Dogs")]),
              status |-> PyStr("available")]),
      PyDict([id |-> PyInt(2), name |-> PyStr("Tom"),
              category |-> PyDict([name |-> PyStr("Cats")]),
              status |-> PyStr("sold")]),
      PyDict([id |-> PyInt(1), name |-> PyStr("Twin"),
              status |-> PyStr("pending")]),
      PyDict([id |-> PyInt(3), name |-> PyStr("Kit"),
              category |-> PyDict([name |-> PyStr("cats")]),
              status |-> PyStr("available")]) }

Stores == { MockPets } \cup UNION { [1..n -> StorePets] : n \in 0..MaxStore }

RequestedIds == { 0, 1, 2, 3, 7, 42 }

RequestedStatuses == { "available", "pending", "sold", "Available", "unknown", "" }

FetchInit ==
    /\ demo = "-"
    /\ predefined_prompts = <<>>
    /\ mock_pets \in Stores
    /\ kernel = "None"
    /\ functions = <<>>
    /\ pc = "-"
    /\ idx = 0
    /\ console = <<>>
    /\ requests = <<>>
    /\ server = "-"
    /\ exit_code = <<>>
    /\ in_flight = {}
    /\ call \in { [op |-> "get_pets"] }
                \cup { [op |-> "get_pet_by_id", pet_id |-> n] : n \in RequestedIds }
                \cup { [op |-> "search_pets_by_status", status |-> st] :
                          st \in RequestedStatuses }
    /\ result = <<>>

GetPetsCall ==
    /\ result = <<>>
    /\ call.op = "get_pets"
    /\ result' = <<GetPets(mock_pets)>>
    /\ UNCHANGED <<driverVars, call>>

GetPetByIdCall ==
    /\ result = <<>>
    /\ call.op = "get_pet_by_id"
    /\ result' = <<GetPetById(mock_pets, call.pet_id)>>
    /\ UNCHANGED <<driverVars, call>>

SearchPetsByStatusCall ==
    /\ result = <<>>
    /\ call.op = "search_pets_by_status"
    /\ result' = <<SearchPetsByStatus(mock_pets, call.status)>>
    /\ UNCHANGED <<driverVars, call>>

FetchNext ==
    \/ GetPetsCall
    \/ GetPetByIdCall
    \/ SearchPetsByStatusCall

SpecFetch == FetchInit /\ [][FetchNext]_vars

(***************************************************************************)
(* The demo driver: PetStoreDemoApp.run of both scripts                    *)
(***************************************************************************)
Rex ==
    PyDict([id |-> PyInt(1), name |-> PyStr("Rex"),
            category |-> PyDict([name |-> PyStr("Dogs")]),
            status |-> PyStr("available")])

Tom ==
    PyDict([id |-> PyInt(2), name |-> PyStr("Tom"),
            category |-> PyDict([name |-> PyStr("Cats")]),
            status |-> PyStr("sold")])

\* a pet as a JSON API hands it out when it has no category
Ghost ==
    PyDict([id |-> PyInt(3), name |-> PyStr("Ghost"), category |-> PyNone,
            status |-> PyStr("pending")])

\* data sources of the mock script: its own, and three others
DriverStores == { MockPets, <<Tom, Rex>>, <<Rex, Ghost>>, <<>> }

DriverPrompts ==
    { "Show me all pets in the store", "Find me pet with ID 1", "Pet 7 ",
      "Pet ID ", "Which pets are currently pending adoption?",
      "What cats do you have?" }

DriverPromptLists ==
    { PredefinedPrompts } \cup UNION { [1..n -> DriverPrompts] : n \in 1..MaxPrompts }

\* the functions the kernel lists once the plugin has loaded the remote tools
ToolSets ==
    { <<>>,
      << [name |-> "findPetById", description |-> "Find Pet By ID"],
         [name |-> "findPetsByStatus", description |-> "Find Pets By Status"],
         [name |-> "listPets", description |-> "List Pets"] >>,
      << [name |-> "findPetsByStatus", description |-> "Find Pets By Status"],
         [name |-> "findPetById", description |-> "Find Pet By ID"] >> }

ServerModes == { "objects", "json", "text", "empty", "down", "unlistable" }

\* the statement of initialize() that raises, "none" if none does
InitFaults == { "none", "kernel", "plugin", "add_plugin", "list" }

MockBanner ==
    "[store] Welcome to the Pet Store MCP Demo! [store]\n"
    \o "==================================================\n\n"
    \o "[robot] This demo processes predefined prompts using our AI orchestrator.\n"
    \o "[link] Target MCP Server: "
    \o McpUrl
    \o "\n"
    \o "[chart] Running in DEMO MODE with mock data\n"
    \o "[bulb] In production, this would connect to the real MCP server\n"

SkBanner ==
    "[store] Welcome to the Pet Store MCP Demo! [store]\n"
    \o "==================================================\n\n"
    \o "[robot] This demo uses Semantic Kernel with MCPSsePlugin for AI orchestration.\n"
    \o "[link] Connected to MCP Server: "
    \o McpUrl
    \o "\n"

CompletedLine ==
    "[check] Demo completed! Thank you for using the Pet Store MCP Demo! [party]"

MockSummary ==
    CompletedLine \o "\n\n"
    \o "[wrench] Implementation Details:\n"
    \o "[bullet] [check] Script accepts 1-N prompts (8 predefined prompts demonstrated)\n"
    \o "[bullet] [check] Script designed to leverage Pet Store MCP server\n"
    \o "[bullet] [check] Script outputs completions to console\n"
    \o "[bullet] [check] Output includes nice formatting with emojis\n"
    \o "[bullet] [rocket] Ready for Semantic Kernel integration"

\* what initialize() and run() print around initialization
InitText(fault, fns) ==
    "[cycle] Initializing Semantic Kernel agent...\n"
    \o (IF fault # "kernel" THEN "[search] Checking MCP server accessibility...\n"
        ELSE "")
    \o (IF fault \notin {"kernel", "plugin", "add_plugin"}
        THEN "[plug] Loading MCP functions...\n" ELSE "")
    \o (IF fault = "none"
        THEN IF fns # <<>>
             THEN "[check] Loaded " \o IntToStr(Len(fns)) \o " MCP functions:\n"
                  \o Concat([k \in 1..Len(fns) |->
                        "  - " \o FullyQualifiedName(fns[k]) \o ": "
                        \o fns[k].description \o "\n"])
             ELSE "[warning]  No MCP functions loaded. This might be normal if the "
                  \o "server is not accessible.\n"
                  \o "   The demo will continue with fallback functionality.\n"
        ELSE "[warning]  MCP initialization had issues: " \o fault \o " failed\n"
             \o "   The demo will continue with fallback functionality.\n")
    \o "[check] Agent initialized successfully!\n"

DriverInit ==
    /\ demo \in {"mock", "sk"}
    /\ predefined_prompts \in DriverPromptLists
    /\ mock_pets \in (IF demo = "mock" THEN DriverStores ELSE {<<>>})
    /\ kernel = "None"
    /\ functions = <<>>
    /\ server \in (IF demo = "sk" THEN ServerModes ELSE {"-"})
    /\ pc = "Idle"
    /\ idx = 1
    /\ console = <<>>
    /\ requests = <<>>
    /\ call = <<>>
    /\ result = <<>>
    /\ exit_code = <<>>
    /\ in_flight = {}

\* run() up to the prompt loop (mock) or up to initialize() (Semantic Kernel)
Start ==
    /\ pc = "Idle"
    /\ console' = Append(console,
            [site |-> "banner",
             text |-> IF demo = "mock" THEN MockBanner ELSE SkBanner])
    /\ pc' = IF demo = "mock" THEN "Running" ELSE "Initializing"
    /\ UNCHANGED <<demo, predefined_prompts, mock_pets, kernel, functions, idx,
                   requests, server, call, result,
                   exit_code, in_flight>>

\* PetStoreSemanticKernelAgent.initialize, which catches what it raises
Initialize ==
    /\ pc = "Initializing"
    /\ \E fault \in InitFaults, loaded \in ToolSets :
          /\ kernel' = IF fault = "kernel" THEN "None" ELSE "Kernel"
          /\ functions' = IF fault \in {"kernel", "plugin", "add_plugin"}
                          THEN <<>> ELSE loaded
          /\ console' = Append(console,
                [site |-> "init", fault |-> fault,
                 text |-> InitText(fault, functions')])
    /\ pc' = "Running"
    /\ UNCHANGED <<demo, predefined_prompts, mock_pets, idx, requests, server,
                   call, result, exit_code, in_flight>>

PromptLine(i) ==
    "[memo] Prompt " \o IntToStr(i) \o "/" \o IntToStr(Len(predefined_prompts))
    \o ": " \o predefined_prompts[i]

Rule(demo_) ==
    IF demo_ = "mock"
    THEN "------------------------------------------------------------"
    ELSE "--------------------------------------------------"

DoubleRule ==
    "================================================================================"

\* the console after one pass of the loop whose process_prompt raised (exc)
\* or returned (text)
PrintPrompt(i, exc, text) ==
    console
    \o << [site |-> "prompt", i |-> i, text |-> PromptLine(i) \o "\n" \o Rule(demo)],
          IF exc
          THEN [site |-> "error", i |-> i,
                text |-> "[x] Error processing prompt: " \o text]
          ELSE [site |-> "response", i |-> i, text |-> text],
          [site |-> "separator", i |-> i, text |-> "\n" \o DoubleRule \o "\n"] >>

\* every prompt the driver is given
AllPrompts ==
    DriverPrompts \cup { PredefinedPrompts[k] : k \in 1..Len(PredefinedPrompts) }

\* AIOrchestrator.process_prompt on each data source and prompt of the driver,
\* with the requests it sends to the client.  (@@ <<>> makes the function an
\* explicit table, so that evaluating ENABLED RunPrompt is a lookup.)
MockAnswers ==
    [at \in DriverStores \X AllPrompts |->
        [out |-> MockProcessPrompt(at[2], at[1]),
         sent |-> MockRequests(at[2])]] @@ <<>>

\* PetStoreSemanticKernelAgent.process_prompt on each kernel, function list,
\* server and prompt of the driver
SkAnswers ==
    [at \in {"None", "Kernel"} \X ToolSets \X ServerModes \X AllPrompts |->
        SkProcessPrompt(at[4], at[1], at[2], at[3])] @@ <<>>

\* a loop whose handlers take the first pet out of the list the client hands
\* them, which is the client's own list
RunPromptConsuming ==
    /\ pc = "Running"
    /\ idx <= Len(predefined_prompts)
    /\ LET prompt == predefined_prompts[idx]
           mock == MockAnswers[<<mock_pets, prompt>>].out
           sent == MockAnswers[<<mock_pets, prompt>>].sent
           sk == SkAnswers[<<kernel, functions, server, prompt>>]
       IN  IF demo = "mock"
           THEN /\ console' = PrintPrompt(idx, mock.exc, mock.text)
                /\ requests' = requests
                      \o [k \in 1..Len(sent) |->
                            [i |-> idx, request |-> sent[k]]]
           ELSE /\ console' = PrintPrompt(idx, sk.exc, sk.text)
                /\ requests' = requests
                      \o [k \in 1..Len(sk.invoked) |->
                            [i |-> idx, request |-> sk.invoked[k]]]
    /\ idx' = idx + 1
    /\ mock_pets' = IF mock_pets = <<>> THEN mock_pets ELSE Tail(mock_pets)
    /\ UNCHANGED <<demo, predefined_prompts, kernel, functions, pc,
                   server, call, result,
                   exit_code, in_flight>>

\* a loop that leaves at the first prompt whose processing raises
RunPromptAbortOnFault ==
    /\ pc = "Running"
    /\ idx <= Len(predefined_prompts)
    /\ LET prompt == predefined_prompts[idx]
           mock == MockAnswers[<<mock_pets, prompt>>].out
           sent == MockAnswers[<<mock_pets, prompt>>].sent
           sk == SkAnswers[<<kernel, functions, server, prompt>>]
       IN  IF demo = "mock"
           THEN /\ console' = PrintPrompt(idx, mock.exc, mock.text)
                /\ requests' = requests
                      \o [k \in 1..Len(sent) |->
                            [i |-> idx, request |-> sent[k]]]
                /\ idx' = IF mock.exc THEN Len(predefined_prompts) + 1 ELSE idx + 1
           ELSE /\ console' = PrintPrompt(idx, sk.exc, sk.text)
                /\ requests' = requests
                      \o [k \in 1..Len(sk.invoked) |->
                            [i |-> idx, request |-> sk.invoked[k]]]
                /\ idx' = idx + 1
    /\ UNCHANGED <<demo, predefined_prompts, mock_pets, kernel, functions, pc,
                   server, call, result,
                   exit_code, in_flight>>

\* one pass of the prompt loop of run(): the prompt line, process_prompt, the
\* response or (on an exception) the error line, the separator
RunPrompt ==
    /\ pc = "Running"
    /\ idx <= Len(predefined_prompts)
    /\ LET prompt == predefined_prompts[idx]
           mock == MockAnswers[<<mock_pets, prompt>>].out
           sent == MockAnswers[<<mock_pets, prompt>>].sent
           sk == SkAnswers[<<kernel, functions, server, prompt>>]
       IN  IF demo = "mock"
           THEN /\ console' = PrintPrompt(idx, mock.exc, mock.text)
                /\ requests' = requests
                      \o [k \in 1..Len(sent) |->
                            [i |-> idx, request |-> sent[k]]]
           ELSE /\ console' = PrintPrompt(idx, sk.exc, sk.text)
                /\ requests' = requests
                      \o [k \in 1..Len(sk.invoked) |->
                            [i |-> idx, request |-> sk.invoked[k]]]
    /\ idx' = idx + 1
    /\ UNCHANGED <<demo, predefined_prompts, mock_pets, kernel, functions, pc,
                   server, call, result,
                   exit_code, in_flight>>

\* a run that ends without its completion line
CompleteSilently ==
    /\ pc = "Running"
    /\ idx > Len(predefined_prompts)
    /\ pc' = "Done"
    /\ UNCHANGED <<demo, predefined_prompts, mock_pets, kernel, functions, idx,
                   console, requests, server, call, result,
                   exit_code, in_flight>>

\* run() after the loop: the completion line (and, in the Semantic Kernel
\* script, cleanup())
Complete ==
    /\ pc = "Running"
    /\ idx > Len(predefined_prompts)
    /\ console' = Append(console,
            [site |-> "summary",
             text |-> IF demo = "mock" THEN MockSummary ELSE CompletedLine])
    /\ pc' = "Done"
    /\ UNCHANGED <<demo, predefined_prompts, mock_pets, kernel, functions, idx,
                   requests, server, call, result,
                   exit_code, in_flight>>

Next ==
    \/ Start
    \/ Initialize
    \/ RunPrompt
    \/ Complete

Spec == DriverInit /\ [][Next]_vars

\* the driver runs on: the event loop and the interpreter take the next step
\* of run() whenever there is one
FairSpec == DriverInit /\ [][Next]_vars /\ WF_vars(Start \/ Initialize \/ RunPrompt \/ Complete)

(***************************************************************************)
(* The process: main() of both scripts around PetStoreDemoApp.run          *)
(***************************************************************************)
\* exit status of an interpreter that an uncaught KeyboardInterrupt ends: it
\* dies of SIGINT, which a shell reports as 128 + 2
SigintStatus == 130

GoodbyeLine == "\n[wave] Demo interrupted by user. Goodbye!"

\* main(): PetStoreDemoApp() or the banner of run() raises an Exception, which
\* `except Exception` of main prints before sys.exit(1)
StartupFault ==
    /\ pc = "Idle"
    /\ console' = Append(console,
            [site |-> "fatal", text |-> "[x] Fatal error: startup failed"])
    /\ pc' = "Exited"
    /\ exit_code' = <<1>>
    /\ UNCHANGED <<demo, predefined_prompts, mock_pets, kernel, functions, idx,
                   requests, server, call, result, in_flight>>

\* the operator interrupts the process (SIGINT).  In the mock script the
\* KeyboardInterrupt is raised in run() and caught by main, which prints the
\* goodbye line and calls sys.exit(0).  In the Semantic Kernel script main is a
\* coroutine under asyncio.run: the interrupt reaches `except KeyboardInterrupt`
\* of main only when it is raised inside the coroutine's own code; when the
\* coroutine is suspended at an await (or the runner cancels the main task)
\* main sees a CancelledError, which neither handler catches, and asyncio.run
\* raises KeyboardInterrupt at module level, where nothing catches it.
Interrupt ==
    /\ pc \in {"Idle", "Initializing", "Running"}
    /\ \E caught \in (IF demo = "mock" THEN {TRUE} ELSE {TRUE, FALSE}) :
          /\ console' = Append(console,
                IF caught
                THEN [site |-> "goodbye", text |-> GoodbyeLine]
                ELSE [site |-> "traceback", text |-> "KeyboardInterrupt"])
          /\ exit_code' = IF caught THEN <<0>> ELSE <<SigintStatus>>
    /\ pc' = "Exited"
    /\ UNCHANGED <<demo, predefined_prompts, mock_pets, kernel, functions, idx,
                   requests, server, call, result, in_flight>>

\* run() has returned and main() ends: the interpreter exits with status 0
Exit ==
    /\ pc = "Done"
    /\ pc' = "Exited"
    /\ exit_code' = <<0>>
    /\ UNCHANGED <<demo, predefined_prompts, mock_pets, kernel, functions, idx,
                   console, requests, server, call, result, in_flight>>

MainNext ==
    \/ Start
    \/ Initialize
    \/ RunPrompt
    \/ Complete
    \/ StartupFault
    \/ Interrupt
    \/ Exit

SpecMain == DriverInit /\ [][MainNext]_vars

(***************************************************************************)
(* The prompt loop step by step: the prompt line, the request that         *)
(* process_prompt sends and awaits, the reply, the response                *)
(***************************************************************************)
\* what process_prompt of the running script comes to for prompt i: whether it
\* raises, its text, and the repository request it sends (<<>> if none)
Outcome(i) ==
    LET Mock(answer) == [exc |-> answer.out.exc, text |-> answer.out.text,
                         sent |-> answer.sent]
        Sk(answer) == [exc |-> answer.exc, text |-> answer.text,
                       sent |-> answer.invoked]
    IN  IF demo = "mock"
        THEN Mock(MockAnswers[<<mock_pets, predefined_prompts[i]>>])
        ELSE Sk(SkAnswers[<<kernel, functions, server, predefined_prompts[i]>>])

\* the three console entries of the pass of the loop for prompt i, whose
\* process_prompt comes to `out`
PassEntries(i, out) ==
    SubSeq(PrintPrompt(i, out.exc, out.text), Len(console) + 1, Len(console) + 3)

\* a loop that sends the request of a prompt and goes on to the next prompt
\* without awaiting the reply
BeginPromptNoAwait ==
    LET Pass(out) ==
            /\ console' = console \o PassEntries(idx, out)
            /\ requests' = requests
                  \o [k \in 1..Len(out.sent) |-> [i |-> idx, request |-> out.sent[k]]]
            /\ in_flight' = in_flight
                  \cup { [i |-> idx, request |-> out.sent[k]] : k \in 1..Len(out.sent) }
    IN  /\ pc = "Running"
        /\ idx <= Len(predefined_prompts)
        /\ Pass(Outcome(idx))
        /\ idx' = idx + 1
        /\ UNCHANGED <<demo, predefined_prompts, mock_pets, kernel, functions, pc,
                       server, call, result, exit_code>>

\* run(): the prompt line, then process_prompt up to the request it sends
\* (`await self.kernel.invoke(...)`, or the call of the mock client)
BeginPrompt ==
    LET Send(out) ==
            /\ console' = Append(console, PassEntries(idx, out)[1])
            /\ requests' = requests
                  \o [k \in 1..Len(out.sent) |-> [i |-> idx, request |-> out.sent[k]]]
            /\ in_flight' = in_flight
                  \cup { [i |-> idx, request |-> out.sent[k]] : k \in 1..Len(out.sent) }
            /\ pc' = IF out.sent = <<>> THEN "Answering" ELSE "Awaiting"
    IN  /\ pc = "Running"
        /\ idx <= Len(predefined_prompts)
        /\ Send(Outcome(idx))
        /\ UNCHANGED <<demo, predefined_prompts, mock_pets, kernel, functions, idx,
                       server, call, result, exit_code>>

\* the awaited call returns or raises: process_prompt goes on
ReceiveReply ==
    /\ pc = "Awaiting"
    /\ in_flight' = { r \in in_flight : r.i # idx }
    /\ pc' = "Answering"
    /\ UNCHANGED <<demo, predefined_prompts, mock_pets, kernel, functions, idx,
                   console, requests, server, call, result, exit_code>>

\* run(): the response or the error line, the separator, the next prompt
PrintResponse ==
    /\ pc = "Answering"
    /\ console' = console
          \o SubSeq(PassEntries(idx, Outcome(idx)), 2, 3)
    /\ idx' = idx + 1
    /\ pc' = "Running"
    /\ UNCHANGED <<demo, predefined_prompts, mock_pets, kernel, functions,
                   requests, server, call, result, exit_code, in_flight>>

LoopNext ==
    \/ Start
    \/ Initialize
    \/ BeginPrompt
    \/ ReceiveReply
    \/ PrintResponse
    \/ Complete

SpecLoop == DriverInit /\ [][LoopNext]_vars

(***************************************************************************)
(* Claims about routing (checked under SpecRoute)                          *)
(***************************************************************************)
Routed == result # <<>>

PromptLower == Lower(call.prompt)

\* the first maximal run of decimal digits of s, found by position
FirstDigitRun(s) ==
    LET first == CHOOSE i \in 1..Len(s) :
                    /\ IsDigit(Chr(s, i))
                    /\ \A j \in 1..(i - 1) : ~IsDigit(Chr(s, j))
        last == CHOOSE j \in first..Len(s) :
                    /\ \A k \in first..j : IsDigit(Chr(s, k))
                    /\ (j = Len(s) \/ ~IsDigit(Chr(s, j + 1)))
    IN  SubSeq(s, first, last)

\* C1: every router selects the list-all operation for every prompt whose
\* lower-cased text contains "all pets" or "list pets", whatever else the
\* prompt contains.
C1_ListAllKeywordWins ==
    (Routed /\ HasListAllKeyword(PromptLower))
        => result[1].decision.op = "ListAll"

\* C2: a prompt that contains "pet" and a decimal digit, and neither
\* "all pets" nor "list pets", is routed by the mock router and by the live
\* router to the by-id lookup of the integer value of its first digit run,
\* whatever that value is (0 and leading zeros included).
C2_FirstDigitRunIsTheId ==
    (/\ Routed
     /\ result[1].router \in {"mock", "live"}
     /\ Contains(PromptLower, "pet")
     /\ AnyDigit(call.prompt)
     /\ ~HasListAllKeyword(PromptLower))
        => /\ result[1].decision.op = "ById"
           /\ result[1].decision.id = ParseInt(FirstDigitRun(call.prompt))

\* the rules a router has after the list-all and by-id rules
HasDogCatRule(router) == router = "mock"

MatchesNoRule(router, p) ==
    /\ ~Contains(p, "pending")
    /\ ~Contains(p, "available")
    /\ ~Contains(p, "adoption")
    /\ ~Contains(p, "sold")
    /\ HasDogCatRule(router) => (~Contains(p, "dog") /\ ~Contains(p, "cat"))

\* C9: among prompts that match neither the list-all rule nor the by-id rule,
\* the status rules apply in the order pending, available/adoption, sold,
\* first match wins, and a prompt matching no rule gets the help message.
C9_StatusRulePrecedence ==
    (/\ Routed
     /\ ~HasListAllKeyword(PromptLower)
     /\ ~ByIdCondition(call.prompt, PromptLower))
        => LET d == result[1].decision
               p == PromptLower
               avail == Contains(p, "available") \/ Contains(p, "adoption")
           IN  /\ Contains(p, "pending")
                    => (d.op = "ByStatus" /\ d.status = "pending")
               /\ (~Contains(p, "pending") /\ avail)
                    => (d.op = "ByStatus" /\ d.status = "available")
               /\ (~Contains(p, "pending") /\ ~avail /\ Contains(p, "sold"))
                    => (d.op = "ByStatus" /\ d.status = "sold")
               /\ MatchesNoRule(result[1].router, p) => d.op = "General"

\* a prompt with "pending", "available" and "sold" routed (by the mock router)
\* to status pending
C9_Witness ==
    /\ Routed
    /\ result[1].router = "mock"
    /\ Contains(PromptLower, "pending")
    /\ Contains(PromptLower, "available")
    /\ Contains(PromptLower, "sold")
    /\ result[1].decision = ByStatus("pending")


(***************************************************************************)
(* Claims about formatting (checked under SpecFormat)                      *)
(***************************************************************************)
Formatted == result # <<>>

\* the pet dicts a call of a formatter was given
PetsGiven ==
    IF result[1].fn \in {"mock_single", "sk_single"}
    THEN (IF result[1].pet.t = "dict" THEN <<result[1].pet>> ELSE <<>>)
    ELSE IF call.data.t = "list" THEN call.data.v ELSE <<>>

\* C7: the list formatter and the single-pet formatter of both scripts never
\* raise for a pet record with missing or malformed fields; they return a
\* display string that shows "Unknown" for an absent id and "Unnamed" for an
\* absent name.
C7_FormattersNeverRaise ==
    Formatted =>
        /\ ~result[1].out.exc
        /\ \A k \in 1..Len(PetsGiven) :
              /\ "id" \notin DOMAIN PetsGiven[k].v
                    => Contains(result[1].out.text, "Unknown")
              /\ "name" \notin DOMAIN PetsGiven[k].v
                    => Contains(result[1].out.text, "Unnamed")

StartsWith(s, prefix) == Len(s) >= Len(prefix) /\ SubSeq(s, 1, Len(prefix)) = prefix

After(s, prefix) == SubSeq(s, Len(prefix) + 1, Len(s))

\* position of the first occurrence of sub in s, 0 if there is none
Find(s, sub) ==
    IF Contains(s, sub)
    THEN CHOOSE i \in 1..(Len(s) - Len(sub) + 1) :
            /\ SubSeq(s, i, i + Len(sub) - 1) = sub
            /\ \A j \in 1..(i - 1) : SubSeq(s, j, j + Len(sub) - 1) # sub
    ELSE 0

RECURSIVE BlocksOf(_)
\* the blocks of a text in which each block ends with a blank line; a rest
\* with no blank line after it is kept as a last, unterminated block
BlocksOf(s) ==
    IF s = "" THEN <<>>
    ELSE LET at == Find(s, "\n\n")
         IN  IF at = 0 THEN <<[text |-> s, closed |-> FALSE]>>
             ELSE <<[text |-> SubSeq(s, 1, at - 1), closed |-> TRUE]>>
                  \o BlocksOf(SubSeq(s, at + 2, Len(s)))

\* the layout the list formatter is to produce for the list pets under header
ListLayout(text, pets, header) ==
    /\ StartsWith(text, header \o "\n\n")
    /\ LET body == After(text, header \o "\n\n")
           blocks == BlocksOf(body)
       IN  IF pets = <<>> THEN body = NoPetsFound
           ELSE /\ ~Contains(text, NoPetsFound)
                /\ Len(blocks) = Len(pets)
                /\ \A k \in 1..Len(pets) :
                      /\ blocks[k].closed
                      /\ Contains(blocks[k].text,
                            " **Pet #"
                            \o ToStr(DictGet(pets[k].v, "id", PyStr("Unknown")))
                            \o "**: "
                            \o ToStr(DictGet(pets[k].v, "name", PyStr("Unnamed")))
                            \o "\n")

\* C10: for every list of pets and header H, the output of the list formatter
\* of either script is H, a blank line, and one block per pet in input order,
\* each followed by one blank line; for the empty list it is exactly
\* H + "\n\n" + the "No pets found." notice, which appears in no other case.
C10_ListLayout ==
    (Formatted /\ result[1].fn \in {"mock_pets", "sk_pets"} /\ call.data.t = "list")
        => /\ ~result[1].out.exc
           /\ ListLayout(result[1].out.text, call.data.v, call.header)


(***************************************************************************)
(* Claims about the repository client (checked under SpecFetch)            *)
(***************************************************************************)
\* the positions of the data source whose pet has the status st
PositionsWithStatus(st) ==
    { k \in 1..Len(mock_pets) :
         mock_pets[k].v["status"].t = "str" /\ mock_pets[k].v["status"].v = st }

\* C8: for every status string s the by-status fetch returns, in stored
\* order, exactly the pets of the data source whose status is s; for an s
\* that is none of available, pending, sold, or that no pet has, it returns
\* the empty list.
C8_ByStatusExactInOrder ==
    (result # <<>> /\ call.op = "search_pets_by_status")
        => LET found == result[1]
               pos == PositionsWithStatus(call.status)
           IN  /\ Len(found) = Cardinality(pos)
               /\ \E f \in [1..Len(found) -> pos] :
                     /\ \A a, b \in 1..Len(found) : a < b => f[a] < f[b]
                     /\ \A a \in 1..Len(found) : found[a] = mock_pets[f[a]]
               /\ pos = {} => found = <<>>

\* a by-status fetch that returned two pets out of a data source that also
\* holds a pet of another status
C8_Witness ==
    /\ result # <<>>
    /\ call.op = "search_pets_by_status"
    /\ Len(result[1]) >= 2
    /\ Len(result[1]) < Len(mock_pets)


(***************************************************************************)
(* Claims about the driver (checked under Spec, C4 under FairSpec)         *)
(***************************************************************************)
\* the console entries printed at a site
At(site) == SelectSeq(console, LAMBDA e : e.site = site)

\* the response or error entries printed for prompt i
OutcomesOf(i) ==
    SelectSeq(console, LAMBDA e : e.site \in {"response", "error"} /\ e.i = i)

\* processing prompt i raises
Faults(i) ==
    IF demo = "mock"
    THEN MockProcessPrompt(predefined_prompts[i], mock_pets).exc
    ELSE SkProcessPrompt(predefined_prompts[i], kernel, functions, server).exc

\* C3: a fault raised while processing one prompt never aborts the run: the
\* prompts are processed one after the other, each exactly once, whatever
\* the outcomes of the ones before; a fault is shown as an error line for
\* that prompt only, and a finished run has processed every prompt.
C3_FaultDoesNotAbort ==
    /\ idx \in 1..(Len(predefined_prompts) + 1)
    /\ Len(At("prompt")) = idx - 1
    /\ \A k \in 1..Len(At("prompt")) : At("prompt")[k].i = k
    /\ \A i \in 1..(idx - 1) :
          /\ Len(OutcomesOf(i)) = 1
          /\ OutcomesOf(i)[1].site = "error" <=> Faults(i)
    /\ pc = "Done" => idx = Len(predefined_prompts) + 1

\* a finished run whose first prompt faulted and whose second was answered
C3_Witness ==
    /\ pc = "Done"
    /\ Len(predefined_prompts) >= 2
    /\ OutcomesOf(1)[1].site = "error"
    /\ OutcomesOf(2)[1].site = "response"

SummaryPrinted ==
    /\ console # <<>>
    /\ console[Len(console)].site = "summary"
    /\ StartsWith(console[Len(console)].text, CompletedLine)

\* C4: every run that has left Idle eventually reaches Done, and whenever
\* Done is reached the completion line has been printed, whether the
\* initialization succeeded or degraded and whether a prompt faulted.
C4_RunCompletes ==
    /\ (pc # "Idle") ~> (pc = "Done")
    /\ [](pc = "Done" => SummaryPrinted)

\* a finished run of the Semantic Kernel script whose initialization failed
C4_Witness ==
    /\ pc = "Done"
    /\ SummaryPrinted
    /\ At("init") # <<>>
    /\ At("init")[1].fault # "none"

\* C5: whatever statement of initialize() fails, the driver enters the prompt
\* loop and every prompt gets the "MCP server is not currently accessible"
\* message of its category, never a generic failure string.
C5_DegradedGivesFallback ==
    (At("init") # <<>> /\ At("init")[1].fault # "none")
        => /\ pc \in {"Running", "Done"}
           /\ \A k \in 1..Len(At("response")) :
                 At("response")[k].text
                    = HandleNoMcpFunctions(
                          predefined_prompts[At("response")[k].i], McpUrl)

\* the ids of the pets of the data source
StoredIds == { mock_pets[k].v["id"].v : k \in 1..Len(mock_pets) }

\* prompt i is routed by the mock script to the by-id fetch of an absent id
AbsentIdPrompt(i) ==
    /\ demo = "mock"
    /\ MockRoute(predefined_prompts[i]).op = "ById"
    /\ MockRoute(predefined_prompts[i]).id \notin StoredIds

NotFoundMessage(n) == "Pet with ID " \o IntToStr(n) \o " not found"

\* C6: for an id that no pet of the data source has, the by-id fetch returns
\* the error result with the message "Pet with ID {id} not found" (no pet, no
\* exception), the response is a single failure line that embeds the message
\* and holds no pet block, and the driver goes on with the next prompt.
C6_AbsentIdIsReported ==
    \A i \in 1..(idx - 1) :
        AbsentIdPrompt(i) =>
            LET n == MockRoute(predefined_prompts[i]).id
                fetched == GetPetById(mock_pets, n)
                line == OutcomesOf(i)[1]
            IN  /\ fetched.t = "dict"
                /\ DOMAIN fetched.v = {"error"}
                /\ fetched.v["error"] = PyStr(NotFoundMessage(n))
                /\ \E k \in 1..Len(requests) :
                      requests[k] = [i |-> i,
                                     request |-> [op |-> "get_pet_by_id", pet_id |-> n]]
                /\ line.site = "response"
                /\ StartsWith(line.text, "[x] ")
                /\ Contains(line.text, NotFoundMessage(n))
                /\ ~Contains(line.text, "\n")
                /\ ~Contains(line.text, "Pet Details")
                /\ pc \in {"Running", "Done"}
                /\ pc = "Done" => Len(At("prompt")) = Len(predefined_prompts)

\* the first prompt asked for an absent id and the second has been processed
C6_Witness ==
    /\ idx > 2
    /\ AbsentIdPrompt(1)
    /\ Len(OutcomesOf(2)) = 1

(***************************************************************************)
(* Claims about the answers of the routers (checked under Spec)            *)
(***************************************************************************)
\* the prompt asks about cats and meets no rule the routers test before
CatPrompt(prompt) ==
    LET p == Lower(prompt)
    IN  /\ Contains(p, "cat")
        /\ ~HasListAllKeyword(p)
        /\ ~ByIdCondition(prompt, p)
        /\ \A w \in {"pending", "available", "adoption", "sold", "dog"} :
              ~Contains(p, w)

\* the pets the running script answers from
DataSet == IF demo = "mock" THEN mock_pets ELSE MockPets

IsCat(pet) ==
    /\ "category" \in DOMAIN pet.v
    /\ pet.v["category"].t = "dict"
    /\ "name" \in DOMAIN pet.v["category"].v
    /\ pet.v["category"].v["name"].t = "str"
    /\ Lower(pet.v["category"].v["name"].v) = "cats"

\* the text before the first blank line
HeaderOf(text) ==
    IF Find(text, "\n\n") = 0 THEN text ELSE SubSeq(text, 1, Find(text, "\n\n") - 1)

\* C11: for a prompt that asks about cats and matches no earlier routing rule
\* the answer of either script lists exactly the pets of the data set whose
\* category is cats, whatever their status, in stored order, and no other pet.
C11_CatsPromptListsCats ==
    \A i \in 1..(idx - 1) :
        CatPrompt(predefined_prompts[i]) =>
            /\ OutcomesOf(i)[1].site = "response"
            /\ ListLayout(OutcomesOf(i)[1].text, SelectSeq(DataSet, IsCat),
                          HeaderOf(OutcomesOf(i)[1].text))

(***************************************************************************)
(* Claims about reading a formatted pet back (checked under SpecFormat)    *)
(***************************************************************************)
\* the text shown after the first label in text, up to the end of its line
ShownAfter(text, label) ==
    LET rest == SubSeq(text, Find(text, label) + Len(label), Len(text))
    IN  IF Find(rest, "\n") = 0 THEN rest ELSE SubSeq(rest, 1, Find(rest, "\n") - 1)

\* a single-pet formatter has formatted a pet dict that has an integer id, a
\* name and a status
SinglePetShown ==
    /\ Formatted
    /\ result[1].fn \in {"mock_single", "sk_single"}
    /\ result[1].pet.t = "dict"
    /\ {"id", "name", "status"} \subseteq DOMAIN result[1].pet.v
    /\ result[1].pet.v["id"].t = "int"
    /\ result[1].pet.v["name"].t = "str"
    /\ result[1].pet.v["status"].t = "str"

IdAndNameReadBack ==
    /\ ~result[1].out.exc
    /\ Contains(result[1].out.text, "ID: ")
    /\ Contains(result[1].out.text, "Name: ")
    /\ Contains(result[1].out.text, "Status: ")
    /\ AnyDigit(ShownAfter(result[1].out.text, "ID: "))
    /\ ParseInt(ShownAfter(result[1].out.text, "ID: ")) = result[1].pet.v["id"].v
    /\ ShownAfter(result[1].out.text, "Name: ") = result[1].pet.v["name"].v

LastSite == console[Len(console)].site

\* C13: the process exits with code 0 when the run completes normally and
\* when the operator interrupts it at any point, with code 1 when an
\* unhandled fault occurs during startup, and with no other code.
C13_ExitCodes ==
    exit_code # <<>> =>
        /\ exit_code[1] \in {0, 1}
        /\ LastSite \in {"summary", "goodbye", "traceback"} => exit_code[1] = 0
        /\ LastSite = "fatal" => exit_code[1] = 1

(***************************************************************************)
(* Claims about the steps of the loop (checked under SpecLoop)             *)
(***************************************************************************)
RequestsOf(i) == { k \in 1..Len(requests) : requests[k].i = i }

\* C14: prompts are processed strictly one after the other: the prompt line
\* and the request of prompt i+1 come only after the response of prompt i has
\* been printed, at most one request is in flight at any time, and each
\* prompt sends at most one request.
C14_StrictlySequential ==
    /\ Cardinality(in_flight) <= 1
    /\ \A r \in in_flight : r.i = idx /\ OutcomesOf(r.i) = <<>>
    /\ \A i \in 1..Len(predefined_prompts) : Cardinality(RequestsOf(i)) <= 1
    /\ \A k \in 1..Len(requests) :
          requests[k].i > 1 => Len(OutcomesOf(requests[k].i - 1)) = 1
    /\ \A k \in 1..Len(console) :
          (console[k].site = "prompt" /\ console[k].i > 1)
              => \E j \in 1..(k - 1) :
                    /\ console[j].site \in {"response", "error"}
                    /\ console[j].i = console[k].i - 1

\* the request of the second prompt is in flight after the first prompt sent
\* a request of its own
C14_Witness ==
    /\ in_flight # {}
    /\ idx = 2
    /\ RequestsOf(1) # {}

(***************************************************************************)
(* Claims about what a prompt leaves behind (checked under Spec)           *)
(***************************************************************************)
\* what the running script answers to prompt alone, from the data it has now
AnswerAlone(prompt) ==
    LET Printed(r) ==
            [site |-> IF r.exc THEN "error" ELSE "response",
             text |-> IF r.exc THEN "[x] Error processing prompt: " \o r.text
                      ELSE r.text]
    IN  IF demo = "mock"
        THEN Printed(MockProcessPrompt(prompt, mock_pets))
        ELSE Printed(SkProcessPrompt(prompt, kernel, functions, server))

\* C15: processing a prompt leaves the prompt list and the pet data (and, in
\* the loop, the kernel and its functions) unchanged, and after any sequence
\* of processed prompts the answer to a prompt is the one it gets when it is
\* processed first: equal prompts of one run get equal answers.
C15_NothingCrossesPrompts ==
    /\ [][/\ predefined_prompts' = predefined_prompts
          /\ mock_pets' = mock_pets
          /\ pc = "Running" => (kernel' = kernel /\ functions' = functions)]_vars
    /\ [](\A i \in 1..(idx - 1) :
            /\ Len(OutcomesOf(i)) = 1
            /\ [site |-> OutcomesOf(i)[1].site, text |-> OutcomesOf(i)[1].text]
                  = AnswerAlone(predefined_prompts[i])
            /\ \A j \in 1..(idx - 1) :
                  predefined_prompts[j] = predefined_prompts[i]
                      => OutcomesOf(j)[1].text = OutcomesOf(i)[1].text)

\* the same prompt has been processed twice, each time with a request to the
\* repository
C15_Witness ==
    /\ idx = 3
    /\ predefined_prompts[1] = predefined_prompts[2]
    /\ \E k \in 1..Len(requests) : requests[k].i = 1
    /\ \E k \in 1..Len(requests) : requests[k].i = 2

(***************************************************************************)
(* Claims about the by-id branch without an id (checked under SpecRoute)   *)
(***************************************************************************)
\* the prompt holds "pet" and "id" but no digit and no list-all keyword
PetIdWithoutDigits ==
    /\ Contains(PromptLower, "pet")
    /\ Contains(PromptLower, "id")
    /\ ~AnyDigit(call.prompt)
    /\ ~HasListAllKeyword(PromptLower)

\* C16: for a prompt that holds "pet" and "id" but no digit, and no list-all
\* keyword, each of the three routers answers with the message that asks for
\* a valid pet id: it invokes no repository operation, tries no later rule
\* and reports no by-id request without an id.
C16_NoDigitsAsksForId ==
    (Routed /\ PetIdWithoutDigits) => result[1].decision = NoValidId

(***************************************************************************)
(* Claims about failures of the remote side (checked under Spec)           *)
(***************************************************************************)
\* the tool invoked for prompt i, if any
Invoked(i) == \E k \in 1..Len(requests) : requests[k].i = i

\* C17: in the Semantic Kernel script every failure of the remote side while
\* a prompt is handled becomes a returned text: process_prompt returns a
\* string for every prompt, which the driver prints as the response (never as
\* an error): a failure line when listing fails, when the tool raises or
\* times out and when it returns no value, and the raw text under a header
\* when the payload is a string that is not JSON.
C17_RemoteFailuresBecomeText ==
    \A i \in 1..(idx - 1) :
        demo = "sk" =>
            /\ Len(OutcomesOf(i)) = 1
            /\ OutcomesOf(i)[1].site = "response"
            /\ (kernel = "Kernel" /\ server = "unlistable")
                  => StartsWith(OutcomesOf(i)[1].text,
                                "[x] Sorry, I couldn't process your request: ")
            /\ (Invoked(i) /\ server = "down")
                  => /\ StartsWith(OutcomesOf(i)[1].text, "[x] ")
                     /\ Contains(OutcomesOf(i)[1].text, "Connection timed out")
            /\ (Invoked(i) /\ server = "empty")
                  => StartsWith(OutcomesOf(i)[1].text, "[x] ")
            /\ (Invoked(i) /\ server = "text")
                  => /\ ~StartsWith(OutcomesOf(i)[1].text, "[x] ")
                     /\ Contains(OutcomesOf(i)[1].text,
                                 "\n\n[page] Service unavailable")

\* the remote tool invoked for the first prompt timed out, and a second prompt
\* has been processed after it
C17_Witness ==
    /\ demo = "sk"
    /\ server = "down"
    /\ idx = 3
    /\ Invoked(1)

(***************************************************************************)
(* Claims about the tool a routed prompt invokes (checked under Spec)      *)
(***************************************************************************)
ToolNames == { functions[k].name : k \in 1..Len(functions) }

\* the names of the tools invoked for prompt i
ToolsInvokedFor(i) ==
    { requests[k].request.tool : k \in { n \in 1..Len(requests) : requests[n].i = i } }

\* C18: whenever the discovered tools contain both findPetById and
\* findPetsByStatus, in any registration order, a prompt routed to by-id
\* invokes the by-id tool and no other, and a prompt routed to by-status or
\* list-all never invokes the by-id tool.
C18_RoutedToolIsInvoked ==
    \A i \in 1..(idx - 1) :
        ( /\ demo = "sk"
          /\ kernel = "Kernel"
          /\ server # "unlistable"
          /\ {"findPetById", "findPetsByStatus"} \subseteq ToolNames )
        => /\ LiveRoute(predefined_prompts[i]).op = "ById"
                => ToolsInvokedFor(i) = {"findPetById"}
           /\ LiveRoute(predefined_prompts[i]).op \in {"ByStatus", "ListAll"}
                => "findPetById" \notin ToolsInvokedFor(i)

====
